---- MODULE Spec2Model ----
(***************************************************************************)
(* A model of rag_news_hack/agentutil:                                     *)
(*   - the four RAGDatabase backends (ragstore/*.py): save_text,           *)
(*     query_text and get over the table / collection / index they keep;   *)
(*   - RagTool.__call__ (tool/base.py): reciprocal rank fusion of the      *)
(*     result lists of several queries;                                    *)
(*   - instantiate_from_config (agentutil/__init__.py): the recursive      *)
(*     resolution of reference tokens against a JSONStore directory;       *)
(*   - JSONStore (datastore/json.py): initialize, store_config,            *)
(*     get_config and get_entities over the files of its directory;        *)
(*   - AzureSearchRAGDatabase.save_text with typed index fields: the       *)
(*     schema update and the retried write;                                *)
(*   - the hybrid query_text of the PostgreSQL and Azure SQL backends:     *)
(*     the reciprocal rank fusion of a vector and a keyword search;        *)
(*   - close() of the backends;                                            *)
(*   - SecretRetriever (agentutil/__init__.py);                            *)
(*   - SpacyChunk.split (chunk/spacy.py).                                  *)
(* Each part has its own specification (Spec, FusionSpec, FactorySpec,     *)
(* ConfigSpec, EvolveSpec, HybridSpec, CloseSpec, SecretSpec, ChunkSpec);  *)
(* the variables of the other parts keep their initial value.              *)
(***************************************************************************)
EXTENDS Integers, Sequences, FiniteSets, TLC

VARIABLES
    backend,      \* which RAGDatabase subclass the instance is
    docs,         \* the rows / documents the backend holds
    indexFields,  \* Azure AI Search: the field names of the index schema
    uuidCount,    \* how many uuid4() values have been drawn
    lastOp,       \* the last call made on the store and its arguments
    lastError,    \* the exception the last call raised, "none" if it returned
    lastResult,   \* what the last call returned: a list of RAGData, or
                  \* the empty list for a call that returns nothing
    lastDocs,     \* history: the stored id of each item of lastResult
    toolState,    \* RagTool: "idle" before the call, "done" after
    toolIn,       \* RagTool: the queries and what the store answered
    toolOut,      \* RagTool: the items emitted, in order
    toolError,    \* RagTool: the exception raised, "none" if it returned
    toolScores,   \* RagTool: the scores dict after the accumulation loop
    directory,    \* JSONStore: file stem -> the descriptor the file holds
    facArg,       \* factory: the descriptor the program made the call with
    descriptor,   \* factory: the metadata dict of that ConfigObject, as it is now
    facState,     \* factory: "idle", "running", "returned" or "raised"
    stack,        \* factory: the frames of instantiate_from_config
    facResult,    \* factory: the object the outermost call returned
    facError,     \* factory: the exception that ended the call
    constructed,  \* factory: every constructor call made, in order
    lookups,      \* factory: every get_config(type, name) made, in order
    stored,       \* JSONStore: (type, name) -> the descriptor put in the store
                  \* under that key and not cleared since
    cfgOp,        \* JSONStore: the last call made on the store
    cfgResult,    \* JSONStore: what that call returned
    cfgError,     \* JSONStore: the exception it raised, "none" if it returned
    azSchema,     \* Azure AI Search: metadata field name -> type of the field
    azStored,     \* Azure AI Search: id -> the metadata fields of the document
    azOp,         \* Azure AI Search: the last save_text and what it did
    azError,      \* Azure AI Search: the exception it raised, "none" if none
    hybOp,        \* hybrid query_text: the call and what each search matched
    hybResult,    \* hybrid query_text: the ids of the list returned, in order
    conn,         \* the connection of the instance: "open" or "closed"
    closes,       \* how many times close() has been called on the instance
    closeError,   \* the exception the last close() raised, "none" if none
    env,          \* os.environ: variable name -> value
    retriver,     \* SecretRetriever.retriver, the class attribute
    secOp,        \* SecretRetriever: the last call and how it ended
    chunkOp       \* SpacyChunk.split: the last call and the chunks returned

storeVars == <<backend, docs, indexFields, uuidCount, lastOp, lastError,
               lastResult, lastDocs>>
toolVars == <<toolState, toolIn, toolOut, toolError, toolScores>>
facVars == <<directory, facArg, descriptor, facState, stack, facResult, facError, constructed,
             lookups>>
cfgVars == <<stored, cfgOp, cfgResult, cfgError>>
azVars == <<azSchema, azStored, azOp, azError>>
hybVars == <<hybOp, hybResult>>
connVars == <<conn, closes, closeError>>
secVars == <<env, retriver, secOp>>
chunkVars == <<chunkOp>>
restVars == <<hybVars, connVars, secVars, chunkVars>>
vars == <<storeVars, toolVars, facVars, cfgVars, azVars, restVars>>

(***************************************************************************)
(* Generic helpers.                                                        *)
(***************************************************************************)
Range(s) == {s[i] : i \in 1..Len(s)}

\* The sequences over S of length at most n that repeat no element.
DistinctSeqs(S, n) ==
    {s \in UNION {[1..m -> S] : m \in 0..n} :
        \A i, j \in 1..Len(s) : i # j => s[i] # s[j]}

Min(a, b) == IF a < b THEN a ELSE b

(***************************************************************************)
(* Part 1: the RAGDatabase backends.                                       *)
(***************************************************************************)
Backends == {"postgres", "sqlserver", "cosmos", "azsearch"}

Texts == {"c1", "c2"}
CallerIds == {"i1"}
UrlVals == {"v1"}
UuidNames == <<"u1", "u2", "u3">>

\* How many documents may be saved without a caller-supplied id.
MaxUuid == 1

\* number_items_to_return of the instance.
NumberItemsToReturn == 1

\* max_distance of the instance, in tenths (the default, 0.8).
MaxDistance == 8
\* The relevance scores (in tenths) Azure AI Search may report for a hit.
Scores == {5, 9}

\* The metadata dicts a caller passes: an optional 'id' and an optional 'url'.
Metadatas ==
    {m \in UNION {[S -> CallerIds \cup UrlVals] : S \in SUBSET {"id", "url"}} :
        /\ "id" \in DOMAIN m => m["id"] \in CallerIds
        /\ "url" \in DOMAIN m => m["url"] \in UrlVals}

\* The attribute filters passed to get.
GetAttributes == {m \in Metadatas : "id" \notin DOMAIN m}

NoOp == [op |-> "none", text |-> "", metadata |-> <<>>, id |-> "",
         existed |-> FALSE, prevData |-> ""]

\* RAGDatabase._calculate_embedding: the vector is the embedder's business;
\* all that is kept is which text it was computed from.
CalculateEmbedding(text) == IF text = "c1" THEN "e1" ELSE "e2"

\* dict with key k set to v (d[k] = v).
DictSet(d, k, v) ==
    [x \in DOMAIN d \cup {k} |-> IF x = k THEN v ELSE d[x]]

\* dict.update: the keys of new win, the other keys of old stay.
DictMerge(old, new) ==
    [x \in DOMAIN old \cup DOMAIN new |->
        IF x \in DOMAIN new THEN new[x] ELSE old[x]]

DocsWithId(D, i) == {d \in D : d.id = i}

\* str(metadata.get('id', uuid4()))
IdValue(metadata, n) ==
    IF "id" \in DOMAIN metadata THEN metadata["id"] ELSE UuidNames[n + 1]

NewDoc(i, text, meta) ==
    [id |-> i, data |-> text, embedding |-> CalculateEmbedding(text),
     meta |-> meta]

\* INSERT ... ON CONFLICT (id) DO UPDATE SET data, embedding, metadata.
PostgresUpsert(D, i, text, metadata) ==
    (D \ DocsWithId(D, i)) \cup {NewDoc(i, text, metadata)}

\* Plain INSERT into a table whose id is the primary key: the statement
\* fails on an id that is already there.
SqlInsertFails(D, i) == DocsWithId(D, i) # {}
SqlInsert(D, i, text, metadata) == D \cup {NewDoc(i, text, metadata)}

\* insert_one, and on DuplicateKeyError update_one({"metadata.id": id},
\* {"$set": document}).
CosmosUpsert(D, i, text, meta) ==
    (D \ DocsWithId(D, i)) \cup {NewDoc(i, text, meta)}

\* merge_or_upload_documents: an existing document keeps the fields the new
\* one does not name; otherwise the document is uploaded as it is.
MergeOrUpload(D, i, text, fields) ==
    LET old == DocsWithId(D, i)
        merged == IF old = {} THEN fields
                  ELSE DictMerge((CHOOSE d \in old : TRUE).meta, fields)
    IN  (D \ old) \cup {NewDoc(i, text, merged)}

\* _update_fields: every key of the document that the index lacks gets a field.
UpdateFields(F, keys) == F \cup keys

SaveText(text, metadata) ==
    /\ "id" \notin DOMAIN metadata => uuidCount < MaxUuid
    /\ LET i == IdValue(metadata, uuidCount)
           meta == DictSet(metadata, "id", i)
           old == DocsWithId(docs, i)
       IN  /\ lastOp' = [op |-> "save_text", text |-> text,
                         metadata |-> metadata, id |-> i,
                         existed |-> old # {},
                         prevData |-> IF old = {} THEN ""
                                      ELSE (CHOOSE d \in old : TRUE).data]
           /\ uuidCount' = IF "id" \in DOMAIN metadata THEN uuidCount
                           ELSE uuidCount + 1
           /\ CASE backend = "postgres" ->
                     /\ docs' = PostgresUpsert(docs, i, text, metadata)
                     /\ lastError' = "none"
                     /\ UNCHANGED indexFields
                [] backend = "sqlserver" ->
                     /\ IF SqlInsertFails(docs, i)
                        THEN /\ lastError' = "IntegrityError"
                             /\ UNCHANGED docs
                        ELSE /\ lastError' = "none"
                             /\ docs' = SqlInsert(docs, i, text, metadata)
                     /\ UNCHANGED indexFields
                [] backend = "cosmos" ->
                     /\ docs' = CosmosUpsert(docs, i, text, meta)
                     /\ lastError' = "none"
                     /\ UNCHANGED indexFields
                [] backend = "azsearch" ->
                     \* the first write fails when a key has no field; the
                     \* fields are added and the write is made again
                     /\ indexFields' =
                          IF DOMAIN meta \subseteq indexFields
                          THEN indexFields
                          ELSE UpdateFields(indexFields,
                                            DOMAIN meta \cup {"data", "embedding"})
                     /\ docs' = MergeOrUpload(docs, i, text, meta)
                     /\ lastError' = "none"
    /\ lastResult' = <<>>
    /\ lastDocs' = <<>>
    /\ UNCHANGED backend

\* The metadata dict of the RAGData built from a stored document.
QueryMetadata(d) ==
    CASE backend = "postgres" -> DictSet(d.meta, "id", d.id)
      [] backend = "sqlserver" -> DictMerge([id |-> d.id], d.meta)
      [] backend = "cosmos" -> d.meta
      [] backend = "azsearch" ->
            [k \in indexFields \ {"data"} |->
                IF k = "embedding" THEN d.embedding
                ELSE IF k \in DOMAIN d.meta THEN d.meta[k] ELSE "null"]

GetMetadata(d) ==
    CASE backend = "postgres" -> d.meta
      [] backend = "sqlserver" -> d.meta
      [] backend = "cosmos" -> d.meta
      [] backend = "azsearch" ->
            [k \in indexFields \ {"data"} |->
                IF k = "embedding" THEN d.embedding
                ELSE IF k \in DOMAIN d.meta THEN d.meta[k] ELSE "null"]

\* The documents an exact-match filter on the stored metadata keeps.
Matching(D, attributes) ==
    {d \in D : \A k \in DOMAIN attributes :
        k \in DOMAIN d.meta /\ d.meta[k] = attributes[k]}

\* query_text: which documents the search finds, and in what order, is the
\* backend's answer (the embedding and the text index decide it): any list of
\* at most number_items_to_return different documents.
QueryText ==
    /\ \E sel \in DistinctSeqs(docs, NumberItemsToReturn) :
       \E sc \in [1..Len(sel) -> IF backend = "azsearch" THEN Scores ELSE {0}] :
          LET kept == SelectSeq([n \in 1..Len(sel) |-> n],
                                LAMBDA n : sc[n] <= MaxDistance)
          IN  /\ lastResult' =
                    [n \in 1..Len(kept) |->
                        [data |-> sel[kept[n]].data,
                         distance |-> sc[kept[n]],
                         metadata |-> QueryMetadata(sel[kept[n]])]]
              /\ lastDocs' = [n \in 1..Len(kept) |-> sel[kept[n]].id]
    /\ lastOp' = [NoOp EXCEPT !.op = "query_text"]
    /\ lastError' = "none"
    /\ UNCHANGED <<backend, docs, indexFields, uuidCount>>

\* get: the rows matching every attribute, cut to number_items_to_return, in
\* the order the backend hands them out.  Azure AI Search answers a filter on
\* a field the index lacks with an HttpResponseError, which get turns into [].
Get(attributes) ==
    /\ LET failed == backend = "azsearch"
                       /\ ~(DOMAIN attributes \subseteq indexFields)
           found == IF failed THEN {} ELSE Matching(docs, attributes)
           n == Min(NumberItemsToReturn, Cardinality(found))
       IN  \E sel \in {s \in DistinctSeqs(found, n) : Len(s) = n} :
           \E sc \in [1..n -> IF backend = "azsearch" THEN Scores ELSE {0}] :
              /\ lastResult' =
                    [j \in 1..n |->
                        [data |-> sel[j].data, distance |-> sc[j],
                         metadata |-> GetMetadata(sel[j])]]
              /\ lastDocs' = [j \in 1..n |-> sel[j].id]
    /\ lastOp' = [NoOp EXCEPT !.op = "get", !.metadata = attributes]
    /\ lastError' = "none"
    /\ UNCHANGED <<backend, docs, indexFields, uuidCount>>

StoreInit ==
    /\ backend \in Backends
    /\ docs = {}
    /\ indexFields = {"id", "data", "embedding"}
    /\ uuidCount = 0
    /\ lastOp = NoOp
    /\ lastError = "none"
    /\ lastResult = <<>>
    /\ lastDocs = <<>>

ToolIdle ==
    /\ toolState = "idle"
    /\ toolIn = <<>>
    /\ toolOut = <<>>
    /\ toolError = "none"
    /\ toolScores = <<>>

FactoryIdle ==
    /\ directory = <<>>
    /\ facArg = <<>>
    /\ descriptor = <<>>
    /\ facState = "idle"
    /\ stack = <<>>
    /\ facResult = <<>>
    /\ facError = "none"
    /\ constructed = <<>>
    /\ lookups = <<>>

NoCfgOp == [op |-> "none"]

ConfigIdle ==
    /\ stored = <<>>
    /\ cfgOp = NoCfgOp
    /\ cfgResult = <<>>
    /\ cfgError = "none"

NoAzOp == [op |-> "none"]

\* _create_index: the index has the fields id, data and embedding, and no
\* field for a metadata key.
AzIdle ==
    /\ azSchema = <<>>
    /\ azStored = <<>>
    /\ azOp = NoAzOp
    /\ azError = "none"

NoHybOp == [op |-> "none"]

HybridIdle ==
    /\ hybOp = NoHybOp
    /\ hybResult = <<>>

\* __init__ of every backend opens its connection or client.
ConnOpen ==
    /\ conn = "open"
    /\ closes = 0
    /\ closeError = "none"

NoSecOp == [op |-> "none"]

\* The class attribute as the class body leaves it.
SecretIdle ==
    /\ env = <<>>
    /\ retriver = "env_secret_retriever"
    /\ secOp = NoSecOp

NoChunkOp == [op |-> "none"]

ChunkIdle == chunkOp = NoChunkOp

RestIdle == HybridIdle /\ ConnOpen /\ SecretIdle /\ ChunkIdle

Init == StoreInit /\ ToolIdle /\ FactoryIdle /\ ConfigIdle /\ AzIdle /\ RestIdle

DoSaveText ==
    /\ \E text \in Texts, metadata \in Metadatas : SaveText(text, metadata)
    /\ UNCHANGED <<toolVars, facVars, cfgVars, azVars, restVars>>

DoQueryText == QueryText /\ UNCHANGED <<toolVars, facVars, cfgVars, azVars, restVars>>

DoGet ==
    /\ \E attributes \in GetAttributes : Get(attributes)
    /\ UNCHANGED <<toolVars, facVars, cfgVars, azVars, restVars>>

Next == DoSaveText \/ DoQueryText \/ DoGet

Spec == Init /\ [][Next]_vars

(***************************************************************************)
(* Part 2: RagTool.__call__, the rank fusion over the queries' results.    *)
(***************************************************************************)
QueryStrings == {"A", "B"}
DocIds == {"d1", "d2", "d3"}

\* The longest 'queries' list passed to the tool.
MaxQueries == 3
\* The longest list query_text answers with.
MaxResultLen == 2

\* k of the reciprocal rank fusion.
K == 60

QueryLists == UNION {[1..n -> QueryStrings] : n \in 0..MaxQueries}

\* What query_text may answer: a list of documents, each id once.
ResultLists == DistinctSeqs(DocIds, MaxResultLen)

\* Scores are kept exact, as multiples of 1 / ScoreUnit, where ScoreUnit is
\* the product of the denominators k + rank + 1 that can occur.
RECURSIVE DenominatorProduct(_)
DenominatorProduct(n) ==
    IF n = 0 THEN 1 ELSE (K + n) * DenominatorProduct(n - 1)

ScoreUnit == DenominatorProduct(MaxResultLen)

\* The term every hit adds whatever its rank: the rank is left out.
ScoreTermNoRank(rank) == ScoreUnit \div (K + 1)

\* 1 / (k + rank + 1), in units of 1 / ScoreUnit.
ScoreTerm(rank) == ScoreUnit \div (K + rank + 1)

\* scores[id] = term: the earlier lists' terms are lost.
AddScoreOverwrites(scores, id, term) == DictSet(scores, id, term)

\* scores[id] += term, on a defaultdict(float).
AddScore(scores, id, term) ==
    DictSet(scores, id, (IF id \in DOMAIN scores THEN scores[id] ELSE 0) + term)

\* The keys of the dict 'data' in insertion order: each query string once,
\* at the place of its first occurrence.
RECURSIVE DataKeys(_)
DataKeys(queries) ==
    IF queries = <<>> THEN <<>>
    ELSE LET front == DataKeys(SubSeq(queries, 1, Len(queries) - 1))
             q == queries[Len(queries)]
         IN  IF q \in Range(front) THEN front ELSE Append(front, q)

\* The RAGData query_text returns for a document: the model keeps the id of
\* its metadata and which query's list it belongs to.
Item(id, query) == [id |-> id, src |-> query]

\* The inner loop: one result list, from rank 'from' on.
RECURSIVE FuseList(_, _, _, _)
FuseList(acc, query, list, from) ==
    IF from >= Len(list) THEN acc
    ELSE LET id == list[from + 1]
         IN  FuseList([scores |-> AddScore(acc.scores, id, ScoreTerm(from)),
                       rank_map |-> DictSet(acc.rank_map, id, Item(id, query))],
                      query, list, from + 1)

\* The outer loop over data.items(), from the n-th key on.
RECURSIVE FuseAll(_, _, _, _)
FuseAll(acc, keys, data, n) ==
    IF n > Len(keys) THEN acc
    ELSE FuseAll(FuseList(acc, keys[n], data[keys[n]], 0), keys, data, n + 1)

Fused(keys, data) ==
    FuseAll([scores |-> <<>>, rank_map |-> <<>>], keys, data, 1)

\* len(data[first query]).
LenResultOfFirst(queries, data) == Len(data[queries[1]])

\* len(data[query]) after the for loop: query is the last query of the list.
LenResult(queries, data) == Len(data[queries[Len(queries)]])

\* A sorted list of hits rather than of keys: an id may come more than once.
SortedWithRepeats(scores) ==
    {s \in [1..Cardinality(DOMAIN scores) -> DOMAIN scores] :
        \A i \in 1..Len(s) - 1 : scores[s[i]] >= scores[s[i + 1]]}

\* sorted(scores.keys(), key = scores[x], reverse = True).  Ids whose exact
\* scores are equal may come out in either order: the floating-point sums
\* of equal terms added in different orders need not be equal.
SortedIds(scores) ==
    {s \in DistinctSeqs(DOMAIN scores, Cardinality(DOMAIN scores)) :
        /\ Len(s) = Cardinality(DOMAIN scores)
        /\ \A i \in 1..Len(s) - 1 : scores[s[i]] >= scores[s[i + 1]]}

RagToolCall(queries, data) ==
    /\ toolState = "idle"
    /\ toolState' = "done"
    /\ toolIn' = [queries |-> queries, data |-> data]
    /\ IF queries = <<>>
       THEN \* 'query' was never bound: len(data[query]) raises
            /\ toolError' = "UnboundLocalError"
            /\ toolOut' = <<>>
            /\ toolScores' = <<>>
       ELSE \E f \in {Fused(DataKeys(queries), data)} :
            \E len_result \in {LenResult(queries, data)} :
                /\ toolError' = "none"
                /\ toolScores' = f.scores
                /\ \E sorted_ids \in SortedIds(f.scores) :
                      toolOut' = [n \in 1..Min(len_result, Len(sorted_ids)) |->
                                     f.rank_map[sorted_ids[n]]]

DoRagToolCall ==
    /\ toolState = "idle"
    /\ \E queries \in QueryLists :
       \E data \in [Range(queries) -> ResultLists] : RagToolCall(queries, data)
    /\ UNCHANGED <<storeVars, facVars, cfgVars, azVars, restVars>>

FusionNext == DoRagToolCall

\* The tool of gradio_chat.py is built over the Postgres store.
FusionInit == Init /\ backend = "postgres"

FusionSpec == FusionInit /\ [][FusionNext]_vars

(***************************************************************************)
(* Part 3: instantiate_from_config over a JSONStore directory.             *)
(* Strings that the code parses (descriptor types and names, metadata      *)
(* values) are sequences of characters.                                    *)
(***************************************************************************)
\* The depth at which Python stops a recursion (sys.getrecursionlimit()),
\* scaled down: deeper than any chain of descriptors without a cycle.
RecursionLimit == 4

\* str.startswith / str.endswith.
StartsWith(s, prefix) ==
    Len(s) >= Len(prefix) /\ SubSeq(s, 1, Len(prefix)) = prefix

EndsWith(s, suffix) ==
    Len(s) >= Len(suffix) /\ SubSeq(s, Len(s) - Len(suffix) + 1, Len(s)) = suffix

\* str.split(sep) for a one-character separator.
RECURSIVE Split(_, _)
Split(s, sep) ==
    IF \A i \in 1..Len(s) : s[i] # sep THEN <<s>>
    ELSE LET i == CHOOSE j \in 1..Len(s) :
                      s[j] = sep /\ \A h \in 1..j - 1 : s[h] # sep
         IN  <<SubSeq(s, 1, i - 1)>> \o Split(SubSeq(s, i + 1, Len(s)), sep)

TokenPrefix == <<"#", "|", ":">>
TokenSuffix == <<":", "|", "#">>

\* A string value of a metadata dict, and the object a constructor returns:
\* its class, the descriptor it was built for and the keyword arguments.
Str(s) == [kind |-> "str", s |-> s]
Obj(cls, of, kwargs) == [kind |-> "obj", cls |-> cls, of |-> of, kwargs |-> kwargs]

\* No value is taken for a reference: the loop substitutes nothing.
NeverReference(v) == FALSE

\* isinstance(v, str) and v.startswith('#|:') and v.endswith(':|#')
IsReference(v) ==
    v.kind = "str" /\ StartsWith(v.s, TokenPrefix) /\ EndsWith(v.s, TokenSuffix)

\* The file <type>_<name>.json of a descriptor, without the extension.
Stem(type, name) == type \o <<"_">> \o name

NoneConfig == [isNone |-> TRUE]

\* JSONStore.get_config: the ConfigObject read from the file, or None.
GetConfig(dir, type, name) ==
    IF Stem(type, name) \in DOMAIN dir
    THEN [isNone |-> FALSE, type |-> type, name |-> name,
          instance |-> dir[Stem(type, name)].instance,
          metadata |-> dir[Stem(type, name)].metadata]
    ELSE NoneConfig

\* The packages of agentutil descriptors are typed with ("e" for embedding,
\* "r" for ragstore) and the classes each one exports.
Modules == {<<"e">>, <<"r">>}
ClassesOf(type) == IF type = <<"e">> THEN {"E"} ELSE {"R"}

\* The keys of a metadata dict, in the order the dict iterates them.
KeyOrder == <<"k1", "k2">>
KeysOf(metadata) == SelectSeq(KeyOrder, LAMBDA k : k \in DOMAIN metadata)

\* The first lines of instantiate_from_config(config, store), called with
\* 'depth' frames already on the stack: the exception they raise, or "none".
EnterError(config, depth) ==
    CASE depth >= RecursionLimit -> "RecursionError"
      [] config.isNone -> "AttributeError"
      [] config.type \notin Modules -> "ModuleNotFoundError"
      [] config.instance \notin ClassesOf(config.type) -> "AttributeError"
      [] OTHER -> "none"

\* params = config.metadata: the name params is bound to the very dict the
\* descriptor holds, so a write to params is a write to the descriptor.
SameDict(metadata) == [dict |-> metadata, shared |-> TRUE]

\* deepcopy(config.metadata): a new dict with the same entries.
Deepcopy(metadata) == [dict |-> metadata, shared |-> FALSE]

\* The frame of a call that got past them: cls and params = deepcopy(metadata).
Frame(config) ==
    [config |-> config, of |-> Stem(config.type, config.name),
     cls |-> config.instance, params |-> Deepcopy(config.metadata).dict,
     shared |-> Deepcopy(config.metadata).shared,
     todo |-> KeysOf(config.metadata), pending |-> ""]

Top == stack[Len(stack)]

ReplaceTop(frame) == [stack EXCEPT ![Len(stack)] = frame]

\* An exception leaves every frame.
Raise(err) ==
    /\ facState' = "raised"
    /\ facError' = err
    /\ stack' = <<>>
    /\ UNCHANGED <<facResult, constructed>>

\* The call instantiate_from_config(config, store) made by the program.
FactoryCall(config) ==
    /\ facState = "idle"
    /\ IF EnterError(config, 0) # "none"
       THEN Raise(EnterError(config, 0))
       ELSE /\ facState' = "running"
            /\ stack' = <<Frame(config)>>
            /\ UNCHANGED <<facResult, facError, constructed>>
    /\ facArg' = config
    /\ descriptor' = IF config.isNone THEN <<>> ELSE config.metadata
    /\ UNCHANGED <<directory, lookups>>

\* One turn of the loop over params.keys() in the innermost call.
ResolveKey ==
    /\ facState = "running"
    /\ Top.todo # <<>>
    /\ LET k == Head(Top.todo)
           v == Top.params[k]
       IN  IF ~IsReference(v)
           THEN /\ stack' = ReplaceTop([Top EXCEPT !.todo = Tail(@)])
                /\ UNCHANGED <<facState, facResult, facError, constructed, lookups>>
           ELSE LET ref == Split(v.s, ":")
                IN  IF Len(ref) < 3
                    THEN Raise("IndexError") /\ UNCHANGED lookups
                    ELSE LET config == GetConfig(directory, ref[2], ref[3])
                             err == EnterError(config, Len(stack))
                         IN  /\ lookups' = Append(lookups,
                                    [by |-> Top.of, type |-> ref[2], name |-> ref[3],
                                     found |-> ~config.isNone])
                             /\ IF err # "none"
                                THEN Raise(err)
                                ELSE /\ stack' = Append(
                                          ReplaceTop([Top EXCEPT
                                              !.config = config,
                                              !.todo = Tail(@),
                                              !.pending = k]),
                                          Frame(config))
                                     /\ UNCHANGED <<facState, facResult, facError,
                                                    constructed>>
    /\ UNCHANGED <<directory, facArg, descriptor>>

\* instance = cls(**params); return instance.  The caller stores it under the
\* key it was resolving.
Construct ==
    /\ facState = "running"
    /\ Top.todo = <<>>
    /\ LET obj == Obj(Top.cls, Top.of, Top.params)
       IN  /\ constructed' = Append(constructed, obj)
           /\ IF Len(stack) = 1
              THEN /\ facState' = "returned"
                   /\ facResult' = obj
                   /\ stack' = <<>>
                   /\ UNCHANGED descriptor
              ELSE LET caller == stack[Len(stack) - 1]
                   IN  /\ stack' = [SubSeq(stack, 1, Len(stack) - 1) EXCEPT
                                       ![Len(stack) - 1] =
                                           [caller EXCEPT
                                               !.params[caller.pending] = obj,
                                               !.pending = ""]]
                       /\ descriptor' =
                              IF Len(stack) = 2 /\ caller.shared
                              THEN [descriptor EXCEPT ![caller.pending] = obj]
                              ELSE descriptor
                       /\ UNCHANGED <<facState, facResult>>
    /\ UNCHANGED <<directory, facArg, facError, lookups>>

\* The constructed object changes an entry of the keyword arguments it was
\* given.  cls(**params) hands the constructor a mapping of its own.
MutateKwargs ==
    /\ facState = "returned"
    /\ \A k \in DOMAIN facResult.kwargs : facResult.kwargs[k] # Str(<<"y">>)
    /\ \E k \in DOMAIN facResult.kwargs :
          facResult' = [facResult EXCEPT !.kwargs[k] = Str(<<"y">>)]
    /\ UNCHANGED <<directory, facArg, descriptor, facState, stack, facError,
                   constructed, lookups>>

\* The descriptors of the directory: three embeddings, one of them with a
\* colon in its name, and a ragstore.
NameA == <<"a">>
NameC == <<"c">>
NameAB == <<"a", ":", "b">>
NameP == <<"p">>
NameZ == <<"z">>

\* '#|:' + type + ':' + name + ':|#'
MkToken(type, name) == TokenPrefix \o type \o <<":">> \o name \o TokenSuffix

\* The (type, name) pairs a token of the directory may name; (e, z) is stored
\* nowhere.
TokenTargets == {<<<<"e">>, NameA>>, <<<<"e">>, NameAB>>, <<<<"r">>, NameP>>,
                 <<<<"e">>, NameZ>>, <<<<"e">>, NameC>>}

\* A metadata value that is not a string.
Num(n) == [kind |-> "int", n |-> n]

\* Values that are no token: a plain string, a number, a string with the
\* prefix only, one with the suffix only, and '#|:|#', where the prefix and
\* the suffix share the colon.
PlainValues ==
    {Str(<<"x">>), Num(7),
     Str(TokenPrefix \o <<"x">>), Str(<<"x">> \o TokenSuffix),
     Str(<<"#", "|", ":", "|", "#">>)}

MetadataValues ==
    PlainValues \cup {Str(MkToken(t[1], t[2])) : t \in TokenTargets}

\* The values of a second key.
SecondValues ==
    {Str(<<"x">>), Str(MkToken(<<"e">>, NameC)), Str(MkToken(<<"r">>, NameP))}

MetadataDicts ==
    [{"k1"} -> MetadataValues]
        \cup {[k1 |-> v, k2 |-> w] : v \in MetadataValues, w \in SecondValues}

Directories ==
    {[s \in {Stem(<<"e">>, NameA), Stem(<<"e">>, NameAB), Stem(<<"e">>, NameC),
             Stem(<<"r">>, NameP)} |->
         IF s = Stem(<<"e">>, NameA) THEN [instance |-> "E", metadata |-> ma]
         ELSE IF s \in {Stem(<<"e">>, NameAB), Stem(<<"e">>, NameC)}
              THEN [instance |-> "E", metadata |-> [k1 |-> Str(<<"x">>)]]
              ELSE [instance |-> ip, metadata |-> mp]] :
        ma \in MetadataDicts, mp \in MetadataDicts, ip \in {"R", "X"}}

\* The descriptors the program starts from (rss_index.py, gradio_chat.py:
\* instantiate_from_config(store.get_config(type, name), store)).
Roots == {<<<<"e">>, NameA>>, <<<<"r">>, NameP>>}

FactoryInit ==
    /\ StoreInit /\ backend = "postgres"
    /\ ToolIdle
    /\ RestIdle
    /\ ConfigIdle
    /\ AzIdle
    /\ directory \in Directories
    /\ facArg = <<>>
    /\ descriptor = <<>>
    /\ facState = "idle"
    /\ stack = <<>>
    /\ facResult = <<>>
    /\ facError = "none"
    /\ constructed = <<>>
    /\ lookups = <<>>

DoFactoryCall ==
    /\ facState = "idle"
    /\ \E root \in Roots : FactoryCall(GetConfig(directory, root[1], root[2]))
    /\ UNCHANGED <<storeVars, toolVars, cfgVars, azVars, restVars>>

DoResolveKey == ResolveKey /\ UNCHANGED <<storeVars, toolVars, cfgVars, azVars, restVars>>

DoConstruct == Construct /\ UNCHANGED <<storeVars, toolVars, cfgVars, azVars, restVars>>

DoMutateKwargs == MutateKwargs /\ UNCHANGED <<storeVars, toolVars, cfgVars, azVars, restVars>>

FactoryNext == DoFactoryCall \/ DoResolveKey \/ DoConstruct \/ DoMutateKwargs

FactorySpec == FactoryInit /\ [][FactoryNext]_vars

(***************************************************************************)
(* Part 4: JSONStore, the descriptors kept as files <type>_<name>.json.    *)
(***************************************************************************)
\* Types and names of descriptors; "e_x" is a type that starts with the
\* type "e" and an underscore.
ConfigTypes == {<<"e">>, <<"e", "_", "x">>}
ConfigNames == {<<"a">>, <<"x", "_", "a">>}
ConfigKeys == ConfigTypes \X ConfigNames

\* int(time.time()) at the time of the call.
Now == 9

\* What a descriptor file holds: instance, metadata and created.
Contents ==
    {[instance |-> "E", metadata |-> [k1 |-> Str(<<"x">>)], created |-> 1],
     [instance |-> "E", metadata |-> [k1 |-> Str(<<"y">>)], created |-> 2]}

\* The ConfigObjects passed to store_config; created = 0 stands for None.
ConfigObjects ==
    [type : ConfigTypes, name : ConfigNames, instance : {"E"},
     metadata : {[k1 |-> Str(<<"x">>)], [k1 |-> Str(<<"z">>)]},
     created : {0, 5}]

\* The descriptors a store may have been populated with, one per key.
Populations == UNION {[S -> Contents] : S \in SUBSET ConfigKeys}

\* The directories that hold them under the file names of store_config:
\* where two keys give the same file name the file holds one of the two.
FilesOf(population) ==
    {d \in [{Stem(k[1], k[2]) : k \in DOMAIN population} -> Contents] :
        \A s \in DOMAIN d :
            \E k \in DOMAIN population :
                Stem(k[1], k[2]) = s /\ d[s] = population[k]}

\* Nothing is removed.
KeepFiles(dir) == dir

\* initialize: with overwrite, every .json file of the directory is removed.
RemoveJsonFiles(dir) == [s \in {} |-> dir[s]]

\* The op record keeps how many files the directory held at the call.
Initialize(overwrite) ==
    /\ cfgOp' = [op |-> "initialize", overwrite |-> overwrite,
                 files |-> Cardinality(DOMAIN directory)]
    /\ cfgResult' = <<>>
    /\ cfgError' = "none"
    /\ IF overwrite
       THEN directory' = RemoveJsonFiles(directory) /\ stored' = <<>>
       ELSE UNCHANGED <<directory, stored>>

\* data of store_config.
Data(obj) ==
    [instance |-> obj.instance, metadata |-> obj.metadata,
     created |-> IF obj.created # 0 THEN obj.created ELSE Now]

\* open(filepath, 'w', 'utf-8'): the third positional parameter of open is
\* buffering, an integer, so the call raises TypeError and opens nothing.
OpenForWriting == "TypeError"

StoreConfig(obj) ==
    /\ cfgOp' = [op |-> "store_config", obj |-> obj]
    /\ IF OpenForWriting # "ok"
       THEN /\ cfgError' = OpenForWriting
            /\ cfgResult' = <<>>
            /\ UNCHANGED <<directory, stored>>
       ELSE /\ directory' = DictSet(directory, Stem(obj.type, obj.name), Data(obj))
            /\ stored' = DictSet(stored, <<obj.type, obj.name>>, Data(obj))
            /\ cfgResult' = obj
            /\ cfgError' = "none"

GetConfigCall(type, name) ==
    /\ cfgOp' = [op |-> "get_config", type |-> type, name |-> name]
    /\ cfgResult' = GetConfig(directory, type, name)
    /\ cfgError' = "none"
    /\ UNCHANGED <<directory, stored>>

\* os.listdir: the file names in any order.
Listings(dir) ==
    {l \in DistinctSeqs(DOMAIN dir, Cardinality(DOMAIN dir)) :
        Len(l) = Cardinality(DOMAIN dir)}

\* The loop of get_entities over a listing: the files whose name starts with
\* '<type>_', each giving (filename[len(type) + 1 : -5], data['created']).
RECURSIVE EntitiesOf(_, _, _)
EntitiesOf(dir, listing, type) ==
    IF listing = <<>> THEN <<>>
    ELSE LET filename == Head(listing)
             rest == EntitiesOf(dir, Tail(listing), type)
         IN  IF StartsWith(filename, type \o <<"_">>)
             THEN <<<<SubSeq(filename, Len(type) + 2, Len(filename)),
                      dir[filename].created>>>> \o rest
             ELSE rest

GetEntities(type) ==
    /\ cfgOp' = [op |-> "get_entities", type |-> type]
    /\ \E listing \in Listings(directory) :
          cfgResult' = EntitiesOf(directory, listing, type)
    /\ cfgError' = "none"
    /\ UNCHANGED <<directory, stored>>

ConfigInit ==
    /\ StoreInit /\ backend = "postgres"
    /\ ToolIdle
    /\ RestIdle
    /\ AzIdle
    /\ stored \in Populations
    /\ directory \in FilesOf(stored)
    /\ cfgOp = NoCfgOp
    /\ cfgResult = <<>>
    /\ cfgError = "none"
    /\ facArg = <<>>
    /\ descriptor = <<>>
    /\ facState = "idle"
    /\ stack = <<>>
    /\ facResult = <<>>
    /\ facError = "none"
    /\ constructed = <<>>
    /\ lookups = <<>>

ConfigFrame ==
    UNCHANGED <<storeVars, toolVars, azVars, restVars, facArg, descriptor, facState,
                stack, facResult, facError, constructed, lookups>>

DoInitialize == (\E overwrite \in BOOLEAN : Initialize(overwrite)) /\ ConfigFrame

DoStoreConfig == (\E obj \in ConfigObjects : StoreConfig(obj)) /\ ConfigFrame

DoGetConfig ==
    (\E type \in ConfigTypes : \E name \in ConfigNames : GetConfigCall(type, name))
        /\ ConfigFrame

DoGetEntities == (\E type \in ConfigTypes : GetEntities(type)) /\ ConfigFrame

ConfigNext == DoInitialize \/ DoStoreConfig \/ DoGetConfig \/ DoGetEntities

ConfigSpec == ConfigInit /\ [][ConfigNext]_vars

(***************************************************************************)
(* Part 5: AzureSearchRAGDatabase.save_text against an index whose fields  *)
(* are typed.  Part 1 keeps the names of the fields only; here a metadata  *)
(* value is the Python type it has, which decides the type of the field    *)
(* made for it and whether the service takes it.                           *)
(***************************************************************************)
AzIds == {"i1", "i2"}
AzKeys == {"url", "flag"}
ValueKinds == {"str", "int", "float", "bool", "list"}

\* The metadata dicts passed to save_text, the id apart.
AzMetadatas == UNION {[S -> ValueKinds] : S \in SUBSET AzKeys}

\* _get_azure_search_data_type: the isinstance tests in their order: str,
\* then int, which a bool is as well, then float, bool and list.
AzureSearchDataType(kind) ==
    CASE kind = "str" -> "String"
      [] kind \in {"int", "bool"} -> "Int32"
      [] kind = "float" -> "Double"
      [] kind = "list" -> "Collection(String)"
      [] OTHER -> "String"

\* Whether the service takes a value of this Python type for a field.
Accepts(fieldType, kind) ==
    \/ fieldType = "String" /\ kind = "str"
    \/ fieldType = "Int32" /\ kind = "int"
    \/ fieldType = "Double" /\ kind \in {"int", "float"}
    \/ fieldType = "Boolean" /\ kind = "bool"
    \/ fieldType = "Collection(String)" /\ kind = "list"

\* What merge_or_upload_documents may answer: "ok", "missing" for the
\* HttpResponseError saying a property 'does not exist on type', "mismatch"
\* for the HttpResponseError of a value the field's type does not take.  A
\* document with both faults gets either error.
WriteOutcomes(schema, d) ==
    LET missing == \E k \in DOMAIN d : k \notin DOMAIN schema
        mismatch == \E k \in DOMAIN d \cap DOMAIN schema : ~Accepts(schema[k], d[k])
    IN  (IF missing THEN {"missing"} ELSE {})
            \cup (IF mismatch THEN {"mismatch"} ELSE {})
            \cup (IF ~missing /\ ~mismatch THEN {"ok"} ELSE {})

\* No key is found to be new.
NoNewFields(schema, d) == {}

\* new_fields of _update_fields: the keys of the document the index has no
\* field for.
NewFields(schema, d) == {k \in DOMAIN d : k \notin DOMAIN schema}

\* The schema after _update_fields.
UpdatedSchema(schema, d) ==
    [k \in DOMAIN schema \cup NewFields(schema, d) |->
        IF k \in DOMAIN schema THEN schema[k] ELSE AzureSearchDataType(d[k])]

\* The documents after a write the service took: the fields are merged into
\* the document of that id.
Merged(docsById, id, d) ==
    DictSet(docsById, id,
            IF id \in DOMAIN docsById THEN DictMerge(docsById[id], d) ELSE d)

\* save_text of azureaisearch.py: the write, and on the 'does not exist'
\* error _update_fields and the write again, outside any try.
AzSaveText(id, d) ==
    \E first \in WriteOutcomes(azSchema, d) :
        IF first = "ok"
        THEN /\ azStored' = Merged(azStored, id, d)
             /\ azOp' = [op |-> "save_text", id |-> id, d |-> d, first |-> first,
                         second |-> "none", writes |-> 1, migrations |-> 0]
             /\ azError' = "none"
             /\ UNCHANGED azSchema
        ELSE IF first = "mismatch"
        THEN /\ azOp' = [op |-> "save_text", id |-> id, d |-> d, first |-> first,
                         second |-> "none", writes |-> 1, migrations |-> 0]
             /\ azError' = "HttpResponseError"
             /\ UNCHANGED <<azSchema, azStored>>
        ELSE \E second \in WriteOutcomes(UpdatedSchema(azSchema, d), d) :
             /\ azSchema' = UpdatedSchema(azSchema, d)
             /\ azOp' = [op |-> "save_text", id |-> id, d |-> d, first |-> first,
                         second |-> second, writes |-> 2,
                         migrations |-> IF NewFields(azSchema, d) # {} THEN 1 ELSE 0]
             /\ IF second = "ok"
                THEN azStored' = Merged(azStored, id, d) /\ azError' = "none"
                ELSE azError' = "HttpResponseError" /\ UNCHANGED azStored

EvolveInit ==
    /\ StoreInit /\ backend = "azsearch"
    /\ ToolIdle
    /\ RestIdle
    /\ FactoryIdle
    /\ ConfigIdle
    /\ AzIdle

DoAzSaveText ==
    /\ \E id \in AzIds : \E d \in AzMetadatas : AzSaveText(id, d)
    /\ UNCHANGED <<storeVars, toolVars, facVars, cfgVars, restVars>>

EvolveNext == DoAzSaveText

EvolveSpec == EvolveInit /\ [][EvolveNext]_vars

(***************************************************************************)
(* Part 6: the hybrid query_text of the PostgreSQL and Azure SQL backends: *)
(* a vector search and a keyword search, fused by reciprocal rank.         *)
(***************************************************************************)
HybridBackends == {"postgres", "sqlserver"}

\* The largest number_items_to_return an instance is built with.
MaxNitens == 2

\* k of the reciprocal rank fusion of the two searches.
HybridK == 60

\* How a search grades a row of rag_data: 1 is the best match, 0 stands for a
\* row the search does not match (or that is not stored).
Grades == {1, 2}
Matchings == [DocIds -> Grades \cup {0}]

Matched(m) == {id \in DocIds : m[id] # 0}

\* rank() over (order by ...): one more than the number of rows that sort
\* strictly before; rows that tie share a rank.
Rank(m, id) == 1 + Cardinality({j \in Matched(m) : m[j] < m[id]})

\* ORDER BY ... LIMIT n (TOP n): n rows none of which sorts after a row left
\* out; which of several tying rows is kept is not determined.
Limited(m, n) ==
    {S \in SUBSET Matched(m) :
        /\ Cardinality(S) = Min(n, Cardinality(Matched(m)))
        /\ \A i \in S, j \in Matched(m) \ S : m[i] <= m[j]}

\* The rows of a search CTE: id -> rank.
SearchRows(m, n) == {[id \in S |-> Rank(m, id)] : S \in Limited(m, n)}

\* Scores are kept exact, as multiples of 1 / HybridUnit, where HybridUnit is
\* the product of the denominators k + rank that can occur.
RECURSIVE HybridDenominators(_)
HybridDenominators(n) ==
    IF n = 0 THEN 1 ELSE (HybridK + n) * HybridDenominators(n - 1)

HybridUnit == HybridDenominators(Cardinality(DocIds))

\* COALESCE(1.0 / (k + rank), 0.0)
HybridTerm(rows, id) ==
    IF id \in DOMAIN rows THEN HybridUnit \div (HybridK + rows[id]) ELSE 0

HybridScore(vs, fs, id) == HybridTerm(vs, id) + HybridTerm(fs, id)

\* An inner join: only the ids both searches found.
InnerJoin(vs, fs) == DOMAIN vs \cap DOMAIN fs

\* vector_search FULL OUTER JOIN fulltext_search ON the id.
FullOuterJoin(vs, fs) == DOMAIN vs \cup DOMAIN fs

\* ORDER BY score DESC: the joined ids in an order of non-increasing score.
OrderedByScore(vs, fs) ==
    LET ids == FullOuterJoin(vs, fs)
    IN  {s \in DistinctSeqs(ids, Cardinality(ids)) :
            /\ Len(s) = Cardinality(ids)
            /\ \A i, j \in 1..Len(s) :
                  i < j => HybridScore(vs, fs, s[i]) >= HybridScore(vs, fs, s[j])}

Limit(s, n) == SubSeq(s, 1, Min(n, Len(s)))

\* The loop over the fetched rows: every item gets the distance 0; the
\* PostgreSQL backend keeps an item if 0 <= max_distance.
FetchedItems(s) ==
    IF backend = "postgres"
    THEN SelectSeq(s, LAMBDA id : 0 <= MaxDistance)
    ELSE s

\* query_text on an instance built with number_items_to_return = n, when the
\* vector search grades the rows as vm and the keyword search as km.  Each
\* search is limited to 2 * n rows.  One call is followed per behaviour: the
\* call reads the table and changes nothing a later call would see.
HybridQueryText(n, vm, km) ==
    /\ backend \in HybridBackends
    /\ hybOp = NoHybOp
    /\ \E vs \in SearchRows(vm, n * 2), fs \in SearchRows(km, n * 2) :
          /\ hybOp' = [op |-> "query_text", nitens |-> n, vector |-> vs,
                       keyword |-> fs]
          /\ \E s \in OrderedByScore(vs, fs) :
                hybResult' = FetchedItems(Limit(s, n))

\* similar_documents of Azure SQL applies no distance bound: every stored row
\* has a rank in the vector search.
VectorGrades(km) ==
    IF backend = "sqlserver"
    THEN {vm \in Matchings : Matched(km) \subseteq Matched(vm)}
    ELSE Matchings

HybridInit == Init /\ backend \in HybridBackends

DoHybridQueryText ==
    /\ \E n \in 1..MaxNitens : \E km \in Matchings : \E vm \in VectorGrades(km) :
          HybridQueryText(n, vm, km)
    /\ UNCHANGED <<storeVars, toolVars, facVars, cfgVars, azVars, connVars,
                   secVars, chunkVars>>

HybridNext == DoHybridQueryText

HybridSpec == HybridInit /\ [][HybridNext]_vars

(***************************************************************************)
(* Part 7: close() of the backends.                                        *)
(***************************************************************************)
\* The most close() calls followed on one instance.
MaxCloses == 2

\* psycopg2: closing a closed cursor or connection does nothing.
PostgresClose ==
    /\ conn' = "closed"
    /\ closeError' = "none"

\* pyodbc: Cursor.close() on a closed cursor raises ProgrammingError
\* ("Attempt to use a closed cursor."); connection.close() is not reached.
SqlServerClose ==
    IF conn = "closed"
    THEN closeError' = "ProgrammingError" /\ UNCHANGED conn
    ELSE conn' = "closed" /\ closeError' = "none"

\* pymongo: MongoClient.close() may be called again.
CosmosClose ==
    /\ conn' = "closed"
    /\ closeError' = "none"

\* The body is 'pass': the clients are left as they are.
AzSearchClose ==
    /\ closeError' = "none"
    /\ UNCHANGED conn

Close ==
    /\ closes < MaxCloses
    /\ closes' = closes + 1
    /\ CASE backend = "postgres" -> PostgresClose
         [] backend = "sqlserver" -> SqlServerClose
         [] backend = "cosmos" -> CosmosClose
         [] backend = "azsearch" -> AzSearchClose

DoClose ==
    /\ Close
    /\ UNCHANGED <<storeVars, toolVars, facVars, cfgVars, azVars, hybVars,
                   secVars, chunkVars>>

\* The instance is used while its connection is open.
DoSaveOpen == conn = "open" /\ closes = 0 /\ DoSaveText

DoGetOpen == conn = "open" /\ closes = 0 /\ DoGet

CloseNext == DoSaveOpen \/ DoGetOpen \/ DoClose

CloseSpec == Init /\ [][CloseNext]_vars

(***************************************************************************)
(* Part 8: SecretRetriever, the process-wide source of secrets.            *)
(***************************************************************************)
SecretNames == {"AZ_SQL_SERVER_PWD", "AZ_AI_SEARCH_KEY", "OPENAI_API_KEY"}
SecretValues == {"s1", "s2"}

\* os.environ: some of the names are set.
Environments == UNION {[S -> SecretValues] : S \in SUBSET SecretNames}

\* The callables a program passes to set_retriever, by name.
CustomRetrievers ==
    [r1 |-> [n \in SecretNames |-> "s1"],
     r2 |-> [n \in SecretNames |-> IF n = "AZ_AI_SEARCH_KEY" THEN "s1" ELSE "s2"]]

\* env_secret_retriever: os.environ[name], a KeyError if the name is not set.
EnvSecretRetriever(name) ==
    IF name \in DOMAIN env
    THEN [result |-> env[name], error |-> "none"]
    ELSE [result |-> "", error |-> "KeyError"]

\* cls.retriver(name)
CallRetriver(name) ==
    IF retriver = "env_secret_retriever"
    THEN EnvSecretRetriever(name)
    ELSE [result |-> CustomRetrievers[retriver][name], error |-> "none"]

SetRetriever(retriever) ==
    /\ retriver' = retriever
    /\ secOp' = [op |-> "set_retriever", arg |-> retriever, result |-> "",
                 error |-> "none"]
    /\ UNCHANGED env

GetSecret(name) ==
    /\ secOp' = [op |-> "get_secret", arg |-> name,
                 result |-> CallRetriver(name).result,
                 error |-> CallRetriver(name).error]
    /\ UNCHANGED <<env, retriver>>

SecretInit ==
    /\ StoreInit /\ backend = "postgres"
    /\ ToolIdle /\ FactoryIdle /\ ConfigIdle /\ AzIdle
    /\ HybridIdle /\ ConnOpen /\ ChunkIdle
    /\ env \in Environments
    /\ retriver = "env_secret_retriever"
    /\ secOp = NoSecOp

SecretFrame ==
    UNCHANGED <<storeVars, toolVars, facVars, cfgVars, azVars, hybVars,
                connVars, chunkVars>>

DoSetRetriever ==
    (\E r \in DOMAIN CustomRetrievers : SetRetriever(r)) /\ SecretFrame

DoGetSecret == (\E name \in SecretNames : GetSecret(name)) /\ SecretFrame

SecretNext == DoSetRetriever \/ DoGetSecret

SecretSpec == SecretInit /\ [][SecretNext]_vars

(***************************************************************************)
(* Part 9: SpacyChunk.split.  A text is the list of its sentences as spaCy *)
(* cuts them; of a sentence only its length after strip() matters, 0 for a *)
(* sentence of white space.  A chunk is the list of the sentences joined   *)
(* into it.                                                                *)
(***************************************************************************)
\* The most sentences of a text.
MaxSents == 3
\* The most characters of a stripped sentence.
MaxSentChars == 3
\* The largest chunk_chars_length.
MaxChunkChars == 2

SentenceLists == UNION {[1..n -> 0..MaxSentChars] : n \in 0..MaxSents}

RECURSIVE SumLen(_)
SumLen(chunk) ==
    IF chunk = <<>> THEN 0 ELSE Head(chunk) + SumLen(Tail(chunk))

\* len(" ".join(chunk)): the sentences and one space between neighbours.
JoinedLen(chunk) ==
    IF chunk = <<>> THEN 0 ELSE SumLen(chunk) + Len(chunk) - 1

\* The loop over doc.sents from sentence i on, and the lines after it.
RECURSIVE SplitFrom(_, _, _, _, _, _)
SplitFrom(sents, i, chunks, current_chunk, current_chunk_chars, chunk_chars_length) ==
    IF i > Len(sents)
    THEN IF current_chunk # <<>> THEN Append(chunks, current_chunk) ELSE chunks
    ELSE LET sent_chars == sents[i]
         IN  IF sent_chars = 0
             THEN SplitFrom(sents, i + 1, chunks, current_chunk,
                            current_chunk_chars, chunk_chars_length)
             ELSE IF current_chunk_chars + sent_chars > chunk_chars_length
                  THEN SplitFrom(sents, i + 1, Append(chunks, current_chunk),
                                 <<sent_chars>>, sent_chars, chunk_chars_length)
                  ELSE SplitFrom(sents, i + 1, chunks,
                                 Append(current_chunk, sent_chars),
                                 current_chunk_chars + sent_chars,
                                 chunk_chars_length)

SpacyChunkSplit(sents, chunk_chars_length) ==
    SplitFrom(sents, 1, <<>>, <<>>, 0, chunk_chars_length)

SplitCall ==
    /\ chunkOp.op = "input"
    /\ chunkOp' = [chunkOp EXCEPT !.op = "split",
                                  !.chunks = SpacyChunkSplit(chunkOp.sents, chunkOp.max)]

ChunkInit ==
    /\ StoreInit /\ backend = "postgres"
    /\ ToolIdle /\ FactoryIdle /\ ConfigIdle /\ AzIdle
    /\ HybridIdle /\ ConnOpen /\ SecretIdle
    /\ \E sents \in SentenceLists, max \in 1..MaxChunkChars :
          chunkOp = [op |-> "input", sents |-> sents, max |-> max,
                     chunks |-> <<>>]

DoSplit ==
    /\ SplitCall
    /\ UNCHANGED <<storeVars, toolVars, facVars, cfgVars, azVars, hybVars,
                   connVars, secVars>>

ChunkNext == DoSplit

ChunkSpec == ChunkInit /\ [][ChunkNext]_vars

(***************************************************************************)
(* Claims about the backends, checked under Spec.                          *)
(***************************************************************************)
\* The last call was save_text with a caller-supplied id under which a
\* document was already stored.
ResavedSameId ==
    /\ lastOp.op = "save_text"
    /\ "id" \in DOMAIN lastOp.metadata
    /\ lastOp.existed

\* The attributes of a metadata dict other than the id.
Attrs(m) == [k \in DOMAIN m \ {"id"} |-> m[k]]

\* C1: after save_text(c1, id = i) and then save_text(c2, id = i) with c1
\* different from c2, the second call has raised nothing and the store holds
\* exactly one document under i, whose content is c2, whatever the backend.
C1_UpsertKeepsLatestContent ==
    (ResavedSameId /\ lastOp.prevData # lastOp.text) =>
        /\ lastError = "none"
        /\ Cardinality(DocsWithId(docs, lastOp.id)) = 1
        /\ \A d \in DocsWithId(docs, lastOp.id) : d.data = lastOp.text

\* C2: after a save_text that completed on an id already stored, the
\* attributes stored under that id are exactly those of the new metadata:
\* no key of the earlier metadata alone is left.
C2_ResaveReplacesAttributes ==
    (ResavedSameId /\ lastError = "none") =>
        \A d \in DocsWithId(docs, lastOp.id) :
            Attrs(d.meta) = Attrs(lastOp.metadata)

\* C3: every item query_text or get returns has an 'id' in its metadata, and
\* it is the id the document is stored under (so the same on every call),
\* also for a document saved without an id.
C3_ReturnedItemsCarryStableId ==
    lastOp.op \in {"query_text", "get"} =>
        \A n \in 1..Len(lastResult) :
            /\ "id" \in DOMAIN lastResult[n].metadata
            /\ lastResult[n].metadata["id"] = lastDocs[n]

(***************************************************************************)
(* Claims about RagTool.__call__, checked under FusionSpec.                *)
(***************************************************************************)
ToolReturned == toolState = "done" /\ toolError = "none"

Sum2(a, b) == a + b

RECURSIVE SumOver(_, _)
SumOver(S, f) ==
    IF S = {} THEN 0
    ELSE LET x == CHOOSE y \in S : TRUE
         IN  Sum2(f[x], SumOver(S \ {x}, f))

\* The 0-based positions of id in a list.
PositionsOf(id, list) == {p \in 0..Len(list) - 1 : list[p + 1] = id}

\* The score the fusion formula gives id over the result lists 'data' (one
\* list per query string): the sum over the lists that hold id of
\* 1 / (60 + p + 1), p its 0-based position, in units of 1 / ScoreUnit.
RRFScore(id, data) ==
    SumOver(DOMAIN data,
            [q \in DOMAIN data |->
                SumOver(PositionsOf(id, data[q]),
                        [p \in PositionsOf(id, data[q]) |->
                            ScoreUnit \div (60 + p + 1)])])

IdsIn(data) == UNION {Range(data[q]) : q \in DOMAIN data}

EmittedIds == {toolOut[n].id : n \in 1..Len(toolOut)}

\* C4: the scores dict holds, for every id of the result lists, the sum over
\* the lists of 1/(60 + p + 1), an absent id adding nothing; the items are
\* emitted in descending order of that score, and no id left out by the cut
\* scores higher than an emitted one.
C4_FusionScoresAndOrder ==
    ToolReturned =>
        /\ DOMAIN toolScores = IdsIn(toolIn.data)
        /\ \A id \in IdsIn(toolIn.data) :
              toolScores[id] = RRFScore(id, toolIn.data)
        /\ \A i, j \in 1..Len(toolOut) :
              i < j => RRFScore(toolOut[i].id, toolIn.data)
                          >= RRFScore(toolOut[j].id, toolIn.data)
        /\ \A id \in IdsIn(toolIn.data) \ EmittedIds :
              \A n \in 1..Len(toolOut) :
                  RRFScore(id, toolIn.data) <= RRFScore(toolOut[n].id, toolIn.data)

\* Two different queries, an id in both lists at different ranks, and two
\* emitted items of different score.
C4_Witness ==
    /\ ToolReturned
    /\ Cardinality(DOMAIN toolIn.data) = 2
    /\ Len(toolOut) = 2
    /\ toolScores[toolOut[1].id] > toolScores[toolOut[2].id]
    /\ \E id \in DocIds :
          /\ PositionsOf(id, toolIn.data["A"]) = {1}
          /\ PositionsOf(id, toolIn.data["B"]) = {0}

C6_NoQueriesReturnsEmpty ==
    (toolState = "done" /\ toolIn.queries = <<>>) =>
        toolError = "none" /\ toolOut = <<>>

\* X is at the first position of the lists of both queries.
FirstInBoth(x, data) ==
    /\ DOMAIN data = {"A", "B"}
    /\ \A q \in DOMAIN data : data[q] # <<>> /\ data[q][1] = x

\* y is at the first position of the list of one query and absent from the
\* list of the other.
FirstInOneOnly(y, data) ==
    \E q, r \in DOMAIN data :
        /\ q # r
        /\ data[q] # <<>> /\ data[q][1] = y
        /\ y \notin Range(data[r])

\* C7: an id X at the first position of both result lists of two queries has
\* a fused score strictly greater than the fused score of an id that is first
\* in one list only and absent from the other, whatever pair of lists that id
\* is fused from; within its own fusion X scores strictly more than every
\* other id and is emitted first.
C7_FirstInBothBeatsFirstInOne ==
    \A x \in DocIds :
        (ToolReturned /\ FirstInBoth(x, toolIn.data)) =>
            /\ \A other \in [{"A", "B"} -> ResultLists] :
               \A y \in DocIds :
                  FirstInOneOnly(y, other) =>
                      toolScores[x] > Fused(<<"A", "B">>, other).scores[y]
            /\ \A y \in DOMAIN toolScores \ {x} : toolScores[x] > toolScores[y]
            /\ toolOut # <<>> /\ toolOut[1].id = x

\* X first in both lists, another id in one list only, both emitted.
C7_Witness ==
    \E x, y \in DocIds :
        /\ ToolReturned
        /\ FirstInBoth(x, toolIn.data)
        /\ y # x
        /\ y \in Range(toolIn.data["A"]) /\ y \notin Range(toolIn.data["B"])
        /\ Len(toolOut) = 2
        /\ toolOut[1].id = x /\ toolOut[2].id = y

(***************************************************************************)
(* Claims about instantiate_from_config, checked under FactorySpec.        *)
(***************************************************************************)
FactoryEnded == facState \in {"returned", "raised"}

\* The stored descriptors a descriptor's metadata names by a reference token
\* '#|:' + type + ':' + name + ':|#'.
ReferencedBy(dir, s) ==
    {Stem(t[1], t[2]) : t \in
        {u \in TokenTargets :
            \E k \in DOMAIN dir[s].metadata :
                dir[s].metadata[k] = Str(MkToken(u[1], u[2]))}} \cap DOMAIN dir

RECURSIVE ReachableIn(_, _, _)
ReachableIn(dir, S, n) ==
    IF n = 0 THEN S
    ELSE ReachableIn(dir, S \cup UNION {ReferencedBy(dir, s) : s \in S}, n - 1)

\* The descriptor stored under s references itself, directly or through a
\* chain of reference tokens.
ReferencesItself(dir, s) ==
    s \in ReachableIn(dir, ReferencedBy(dir, s), Cardinality(DOMAIN dir))

\* C8: when instantiate_from_config has returned, every constructor call it
\* made received, for each metadata value that was the reference token of a
\* (type, name), the object built from the descriptor (type, name), and
\* received no reference token.
C8_TokensReplacedByLiveObjects ==
    facState = "returned" =>
        \A n \in 1..Len(constructed) :
            \A k \in DOMAIN constructed[n].kwargs :
                /\ ~IsReference(constructed[n].kwargs[k])
                /\ \A t \in TokenTargets :
                      directory[constructed[n].of].metadata[k]
                              = Str(MkToken(t[1], t[2])) =>
                          /\ constructed[n].kwargs[k].kind = "obj"
                          /\ constructed[n].kwargs[k].of = Stem(t[1], t[2])

\* Nothing but a cycle stands in the way of resolving s: every descriptor
\* reachable from it names a class of its package, and every reference token
\* in their metadata names a stored descriptor whose name has no colon.
OnlyCyclesFail(dir, s) ==
    \A t \in TokenTargets \cup Roots :
        Stem(t[1], t[2]) \in ReachableIn(dir, {s}, Cardinality(DOMAIN dir)) =>
            /\ dir[Stem(t[1], t[2])].instance \in ClassesOf(t[1])
            /\ \A k \in DOMAIN dir[Stem(t[1], t[2])].metadata :
                  IsReference(dir[Stem(t[1], t[2])].metadata[k]) =>
                      \E u \in TokenTargets :
                          /\ dir[Stem(t[1], t[2])].metadata[k]
                                 = Str(MkToken(u[1], u[2]))
                          /\ ":" \notin Range(u[2])
                          /\ Stem(u[1], u[2]) \in DOMAIN dir

\* C9: a call on a descriptor that references itself, directly or through a
\* chain of reference tokens, ends with the CyclicReference error.
C9_CycleRaisesCyclicReference ==
    (/\ FactoryEnded
     /\ ReferencesItself(directory, Stem(facArg.type, facArg.name))
     /\ OnlyCyclesFail(directory, Stem(facArg.type, facArg.name))) =>
        facState = "raised" /\ facError = "CyclicReference"

\* C10: when get_config finds no descriptor for a reference token, the call
\* fails with UnresolvedReference and the constructor of the descriptor that
\* holds the token is not run.
C10_MissingReferenceRaisesUnresolved ==
    \A n \in 1..Len(lookups) :
        ~lookups[n].found =>
            /\ facState = "raised"
            /\ facError = "UnresolvedReference"
            /\ \A m \in 1..Len(constructed) : constructed[m].of # lookups[n].by

\* C11: a call on a descriptor whose instance names no class of the package
\* of its type fails with the UnknownImplementation error, having looked up
\* no reference and constructed no object.
C11_UnknownClassRaisesUnknownImplementation ==
    (FactoryEnded /\ facArg.instance \notin ClassesOf(facArg.type)) =>
        /\ facState = "raised"
        /\ facError = "UnknownImplementation"
        /\ lookups = <<>>
        /\ constructed = <<>>

\* C12: no step of instantiate_from_config, and no later change of the
\* keyword arguments by the constructed object, changes the directory of the
\* store or the metadata of the descriptor the call was given: it keeps the
\* values it was passed with, reference tokens included.
C12_DescriptorAndStoreUntouched ==
    [][/\ directory' = directory
       /\ facState' # "idle" => descriptor' = facArg'.metadata]_vars

\* The call was given a descriptor holding a reference token, has returned
\* an object built with the referenced object in its place, and the object
\* has changed its keyword arguments since.
C12_Witness ==
    /\ facState = "returned"
    /\ \E k \in DOMAIN descriptor :
          /\ IsReference(descriptor[k])
          /\ constructed[Len(constructed)].kwargs[k].kind = "obj"
    /\ facResult.kwargs # constructed[Len(constructed)].kwargs

\* The strings that are the reference token of some (type, name).
Tokens == {Str(MkToken(t[1], t[2])) : t \in TokenTargets}

\* C13: every constructor call receives, for each argument that is an object,
\* an object whose own constructor call was completed earlier, and receives no
\* reference token left unresolved: a referenced descriptor is built, whole,
\* before the constructor of the descriptor referencing it starts.
C13_DepthFirstEager ==
    \A n \in 1..Len(constructed) :
        \A k \in DOMAIN constructed[n].kwargs :
            /\ constructed[n].kwargs[k] \notin Tokens
            /\ constructed[n].kwargs[k].kind = "obj" =>
                  \E m \in 1..n - 1 : constructed[m] = constructed[n].kwargs[k]

\* The chain r/p -> e/a -> e/c: c was built first, then a with c, then p
\* with a.
C13_Witness ==
    /\ facState = "returned"
    /\ Len(constructed) = 3
    /\ constructed[1].of = Stem(<<"e">>, NameC)
    /\ constructed[2].of = Stem(<<"e">>, NameA)
    /\ constructed[2].kwargs["k1"] = constructed[1]
    /\ constructed[3].of = Stem(<<"r">>, NameP)
    /\ constructed[3].kwargs["k1"] = constructed[2]
    /\ facResult = constructed[3]

\* C14: a call on a descriptor of a known class whose metadata values are all
\* something else than a whole reference token (a number, a plain string, a
\* string with the prefix only or the suffix only, or '#|:|#') returns, makes
\* no get_config and passes the values to the constructor as they are.
C14_OtherValuesPassedUnchanged ==
    (/\ FactoryEnded
     /\ facArg.instance \in ClassesOf(facArg.type)
     /\ \A k \in DOMAIN facArg.metadata : facArg.metadata[k] \notin Tokens) =>
        /\ facState = "returned"
        /\ lookups = <<>>
        /\ Len(constructed) = 1
        /\ constructed[1].kwargs = facArg.metadata

(***************************************************************************)
(* Claims about JSONStore, checked under ConfigSpec.                       *)
(***************************************************************************)
\* C15: after store_config(d) the call has raised nothing, get_config(d.type,
\* d.name) gives a descriptor with d's instance and metadata, and the
\* descriptor returned has created set when d.created was unset.
C15_StoreConfigPersists ==
    cfgOp.op = "store_config" =>
        /\ cfgError = "none"
        /\ ~GetConfig(directory, cfgOp.obj.type, cfgOp.obj.name).isNone
        /\ GetConfig(directory, cfgOp.obj.type, cfgOp.obj.name).instance
               = cfgOp.obj.instance
        /\ GetConfig(directory, cfgOp.obj.type, cfgOp.obj.name).metadata
               = cfgOp.obj.metadata
        /\ cfgOp.obj.created = 0 => cfgResult.created # 0

\* C16: every store_config(d) completes, makes get_config of d's key return
\* d's instance and metadata, and leaves what get_config returns for every
\* other (type, name) as it was.
C16_WritesTouchOnlyTheirKey ==
    [][cfgOp'.op = "store_config" =>
          /\ cfgError' = "none"
          /\ \A k \in ConfigKeys :
                IF k = <<cfgOp'.obj.type, cfgOp'.obj.name>>
                THEN /\ ~GetConfig(directory', k[1], k[2]).isNone
                     /\ GetConfig(directory', k[1], k[2]).instance
                            = cfgOp'.obj.instance
                     /\ GetConfig(directory', k[1], k[2]).metadata
                            = cfgOp'.obj.metadata
                ELSE GetConfig(directory', k[1], k[2])
                         = GetConfig(directory, k[1], k[2])]_vars

\* C17: get_entities(t) returns one pair for each descriptor stored with type
\* t, holding its name and its created, and nothing else.
C17_EntitiesAreTheDescriptorsOfTheType ==
    cfgOp.op = "get_entities" =>
        /\ Len(cfgResult) = Cardinality({k \in DOMAIN stored : k[1] = cfgOp.type})
        /\ \A k \in DOMAIN stored :
              k[1] = cfgOp.type =>
                  \E i \in 1..Len(cfgResult) :
                      cfgResult[i] = <<k[2], stored[k].created>>
        /\ \A i \in 1..Len(cfgResult) :
              <<cfgOp.type, cfgResult[i][1]>> \in DOMAIN stored

C19_GetConfigFindsExactlyTheStored ==
    cfgOp.op = "get_config" =>
        /\ cfgError = "none"
        /\ IF <<cfgOp.type, cfgOp.name>> \in DOMAIN stored
           THEN /\ ~cfgResult.isNone
                /\ cfgResult.type = cfgOp.type /\ cfgResult.name = cfgOp.name
                /\ cfgResult.instance = stored[<<cfgOp.type, cfgOp.name>>].instance
                /\ cfgResult.metadata = stored[<<cfgOp.type, cfgOp.name>>].metadata
           ELSE cfgResult = NoneConfig

(***************************************************************************)
(* Claims about the schema evolution, checked under EvolveSpec.            *)
(***************************************************************************)
\* C20: one save_text makes at most two writes and at most one schema
\* migration.  When the first write is rejected for a field the index lacks,
\* one migration is applied, after which the index has a field for every key
\* of the document, and the write is made once more; when that second write
\* fails, the error reaches the caller and the document is not stored.  A
\* write rejected for another reason is not retried.
C20_OneMigrationOneRetry ==
    azOp.op = "save_text" =>
        /\ azOp.writes <= 2 /\ azOp.migrations <= 1
        /\ azOp.first = "missing" =>
              /\ azOp.migrations = 1 /\ azOp.writes = 2
              /\ DOMAIN azOp.d \subseteq DOMAIN azSchema
              /\ azOp.second \in {"ok", "mismatch"}
              /\ azOp.second = "ok" =>
                    /\ azError = "none"
                    /\ azOp.id \in DOMAIN azStored
                    /\ \A k \in DOMAIN azOp.d : azStored[azOp.id][k] = azOp.d[k]
              /\ azOp.second = "mismatch" => azError = "HttpResponseError"
        /\ azOp.first # "missing" => azOp.writes = 1 /\ azOp.migrations = 0
        /\ azOp.first = "mismatch" => azError = "HttpResponseError"

\* A document with a boolean under a new key: the first write was rejected
\* for the missing field, the migration made an Int32 field, and the second
\* write failed and was raised.
C20_Witness ==
    /\ azOp.op = "save_text"
    /\ azOp.first = "missing"
    /\ azOp.second = "mismatch"
    /\ azOp.writes = 2 /\ azOp.migrations = 1
    /\ azError = "HttpResponseError"
    /\ \E k \in DOMAIN azOp.d : azOp.d[k] = "bool" /\ azSchema[k] = "Int32"

\* The field type the native type of a value calls for.
NativeFieldType(kind) ==
    CASE kind = "str" -> "String"
      [] kind = "int" -> "Int32"
      [] kind = "float" -> "Double"
      [] kind = "bool" -> "Boolean"
      [] kind = "list" -> "Collection(String)"

\* C21: every field a save_text adds to the index has the type that the
\* native type of the value calls for: String for a string, Int32 for an
\* integer, Double for a float, Boolean for True and False, collection of
\* String for a list.
C21_FieldTypeFollowsNativeType ==
    [][\A k \in DOMAIN azSchema' \ DOMAIN azSchema :
          azSchema'[k] = NativeFieldType(azOp'.d[k])]_vars

(***************************************************************************)
(* Further claims about the backends, checked under Spec.                  *)
(***************************************************************************)
\* The last call was a get on Azure AI Search whose filter names a field the
\* index does not have: the search call of the backend failed.
GetSearchFailed ==
    /\ backend = "azsearch"
    /\ lastOp.op = "get"
    /\ ~(DOMAIN lastOp.metadata \subseteq indexFields)

\* C22: a get whose backend call failed fails to its caller; it does not
\* return an empty result in place of the failure.
C22_FailuresReachTheCaller ==
    GetSearchFailed => lastError # "none"

(***************************************************************************)
(* Claims about the hybrid query_text, checked under HybridSpec.           *)
(***************************************************************************)
HybridReturned == hybOp.op = "query_text"

\* The ids either search returned.
SearchUnion == DOMAIN hybOp.vector \cup DOMAIN hybOp.keyword

\* The score of the claim: 1 / (60 + rank) for each source that holds the id.
RRFOfSources(id) ==
    (IF id \in DOMAIN hybOp.vector
     THEN HybridUnit \div (60 + hybOp.vector[id]) ELSE 0)
    + (IF id \in DOMAIN hybOp.keyword
       THEN HybridUnit \div (60 + hybOp.keyword[id]) ELSE 0)

C24_ScoreFilterKeepsTheBetter ==
    (backend = "azsearch" /\ lastOp.op = "query_text") =>
        \A n \in 1..Len(lastResult) : lastResult[n].distance >= MaxDistance

\* C25: get(attributes) returns at most number_items_to_return items, each a
\* stored document whose attributes equal the requested value for every
\* requested key, and each with the score 0.
C25_GetGivesMatchesWithScoreZero ==
    (lastOp.op = "get" /\ lastError = "none") =>
        /\ Len(lastResult) <= NumberItemsToReturn
        /\ \A n \in 1..Len(lastResult) :
              /\ \E d \in docs :
                    /\ d.id = lastDocs[n]
                    /\ \A k \in DOMAIN lastOp.metadata :
                          k \in DOMAIN d.meta /\ d.meta[k] = lastOp.metadata[k]
              /\ lastResult[n].distance = 0

(***************************************************************************)
(* Claims about close(), checked under CloseSpec.                          *)
(***************************************************************************)
\* C26: close() may be called any number of times on an instance: no call
\* raises an error, and after it the instance is closed.
C26_CloseIsIdempotent ==
    closes > 0 => (closeError = "none" /\ conn = "closed")

(***************************************************************************)
(* Claims about SecretRetriever, checked under SecretSpec.                 *)
(***************************************************************************)
\* C27: with the default strategy get_secret(name) returns the value of the
\* environment variable name and fails with SecretNotFound when it is unset;
\* once a retriever r has been set, get_secret(name) returns r(name).
C27_SecretComesFromTheStrategy ==
    secOp.op = "get_secret" =>
        IF retriver = "env_secret_retriever"
        THEN IF secOp.arg \in DOMAIN env
             THEN secOp.error = "none" /\ secOp.result = env[secOp.arg]
             ELSE secOp.error = "SecretNotFound"
        ELSE /\ secOp.error = "none"
             /\ secOp.result = CustomRetrievers[retriver][secOp.arg]

(***************************************************************************)
(* Claims about SpacyChunk.split, checked under ChunkSpec.                 *)
(***************************************************************************)
\* C28: every piece split returns has at most max_chars characters, unless it
\* is a single sentence that alone exceeds max_chars; no piece is empty.
C28_PiecesFitAndAreNotEmpty ==
    chunkOp.op = "split" =>
        \A n \in 1..Len(chunkOp.chunks) :
            LET piece == chunkOp.chunks[n]
            IN  /\ \/ JoinedLen(piece) <= chunkOp.max
                   \/ Len(piece) = 1 /\ piece[1] > chunkOp.max
                /\ JoinedLen(piece) > 0

C30_TokenLooksUpItsOwnPair ==
    \A i \in 1..Len(lookups) :
        \E k \in DOMAIN directory[lookups[i].by].metadata :
            directory[lookups[i].by].metadata[k]
                = Str(MkToken(lookups[i].type, lookups[i].name))

====
